---- MODULE Spec2Model ----
(***************************************************************************)
(* Model of the batch-translation notebook (90 - Batch Translation Demo)   *)
(* run top to bottom: key loading, request building, chunking, pilot       *)
(* batch, submission, polling, download + parsing, and the final join.     *)
(*                                                                         *)
(* Strings are sequences of one-character strings, so that the f-string    *)
(* composition of custom_id and its decomposition by replace/split/int     *)
(* are computed character by character.  A text file is a sequence of      *)
(* tokens: one token per JSON document and one token per newline.          *)
(***************************************************************************)
EXTENDS Integers, Sequences, FiniteSets, TLC

VARIABLES
    pc,                \* position of the notebook run (which cell / step is next)
    error,             \* exception that stopped the run ("none" while running)
    api_calls,         \* kinds of API requests issued so far
    env_key,           \* os.environ["OPENAI_API_KEY"]: [set, val]
    key_file,          \* key/openai_key.txt: [exists, text]
    client,            \* TRUE once client = OpenAI() has run
    df_claims,         \* input rows, each [claim_id, Claim]
    TARGET_LANGS,      \* list of target languages
    NUM_PARTS,         \* number of chunks
    rng,               \* what the random module draws next (a natural number)
    jsonl_text,        \* content of int_data/batch_input_claims_demo.jsonl
    part_texts,        \* content of the files named by part_paths, in order
    pilot_line,        \* the line chosen for the pilot batch
    pilot_jobs,        \* inputs of the pilot jobs created, in creation order
    BATCH_ID_FILE,     \* batch_ids_full.json: [exists, ids]
    batch_ids,         \* the in-memory list batch_ids
    batch_ids_defined, \* TRUE once the name batch_ids is bound
    restarted,         \* TRUE once the kernel was restarted after submission
    svc,               \* the external service: job id -> [status, input]
    PENDING, COMPLETED, FAILED,
    todo,              \* ids of list(PENDING) not yet visited in this round
    lastq,             \* the last status query of the poll loop: [bid, st]
    shown,             \* the counts last printed by the poll loop
    rest,              \* ids of COMPLETED not yet visited by stage (C)
    downloaded,        \* ids whose output file content was fetched
    dl,                \* the last call of download_output: what it saw and did
    all_tables,        \* list of parsed tables, each [bid, rows]
    df_translated,     \* [defined, rows]
    df_final,          \* [defined, rows]
    decoded,           \* result of decomposing one custom_id (identifier round trip)
    parse_in,          \* text of an output file handed to parse_batch_file
    parse_out,         \* what parse_batch_file did with parse_in
    ts                 \* the names of the two-stage notebook (20), as a record

vars == <<pc, error, api_calls, env_key, key_file, client, df_claims,
          TARGET_LANGS, NUM_PARTS, rng, jsonl_text, part_texts, pilot_line,
          pilot_jobs, BATCH_ID_FILE, batch_ids, batch_ids_defined, restarted,
          svc, PENDING, COMPLETED, FAILED, todo, lastq, shown, rest,
          downloaded, dl, all_tables, df_translated, df_final, decoded,
          parse_in, parse_out, ts>>

keyVars  == <<env_key, key_file, client>>
inVars   == <<df_claims, TARGET_LANGS, NUM_PARTS, rng>>
fileVars == <<jsonl_text, part_texts, pilot_line, pilot_jobs, BATCH_ID_FILE>>
subVars  == <<batch_ids, batch_ids_defined, restarted>>
pollVars == <<PENDING, COMPLETED, FAILED, todo, lastq, shown>>
aggVars  == <<rest, downloaded, dl, all_tables, df_translated, df_final>>
idVars   == <<decoded, parse_in, parse_out, ts>>

----------------------------------------------------------------------------
(* Bounds                                                                  *)

MaxParts == 2       \* NUM_PARTS in the notebook run
MaxPollParts == 2   \* NUM_PARTS in the poll-loop specification
MaxIdRows == 2      \* rows in the identifier specification
MaxIdLangs == 2     \* languages in the identifier specification
MaxLines == 9       \* request lines in the chunking specification
MaxChunkParts == 6  \* NUM_PARTS in the chunking specification
MaxSubParts == 3    \* NUM_PARTS in the submission specification
MaxOutLines == 2    \* result lines of an output file in the parser specification
MaxRand == 1        \* draws of the random module in the notebook run
MaxEdges == 1       \* edges in a Stage 2 response of the two-stage notebook

----------------------------------------------------------------------------
(* Strings                                                                 *)

Digits == <<"0", "1", "2", "3", "4", "5", "6", "7", "8", "9">>

\* Code-point order of the characters used by the model.
AsciiOrder == <<"\n", " ", "0", "1", "2", "3", "4", "5", "6", "7", "8", "9",
                "C", "G", "J", "N", "S", "_", "a", "c", "d", "e", "h", "i",
                "k", "l", "m", "n", "p", "r", "s", "t", "x", "z">>

CharCode(c) == CHOOSE i \in 1..Len(AsciiOrder) : AsciiOrder[i] = c

IsDigit(c) == \E i \in 1..10 : Digits[i] = c

DigitVal(c) == (CHOOSE i \in 1..10 : Digits[i] = c) - 1

\* str(n) / f"{n}" for a non-negative integer
RECURSIVE IntToStr(_)
IntToStr(n) ==
    IF n < 10 THEN <<Digits[n + 1]>>
    ELSE IntToStr(n \div 10) \o <<Digits[(n % 10) + 1]>>

RECURSIVE DigitsVal(_, _)
DigitsVal(s, acc) ==
    IF s = <<>> THEN acc
    ELSE DigitsVal(Tail(s), acc * 10 + DigitVal(Head(s)))

\* int(s): ValueError unless s is a non-empty run of digits (the model's
\* alphabet has no sign; whitespace never reaches int here)
StrToInt(s) ==
    IF s # <<>> /\ \A i \in 1..Len(s) : IsDigit(s[i])
    THEN [ok |-> TRUE, val |-> DigitsVal(s, 0)]
    ELSE [ok |-> FALSE, val |-> 0]

HasPrefix(s, p) == Len(s) >= Len(p) /\ SubSeq(s, 1, Len(p)) = p

\* s.replace(old, ""): every non-overlapping occurrence, left to right
RECURSIVE RemoveAll(_, _)
RemoveAll(s, old) ==
    IF s = <<>> THEN <<>>
    ELSE IF HasPrefix(s, old) THEN RemoveAll(SubSeq(s, Len(old) + 1, Len(s)), old)
    ELSE <<Head(s)>> \o RemoveAll(Tail(s), old)

\* s.split(sep) for a one-character separator: "" gives [""]
RECURSIVE SplitAcc(_, _, _)
SplitAcc(s, sep, cur) ==
    IF s = <<>> THEN <<cur>>
    ELSE IF Head(s) = sep THEN <<cur>> \o SplitAcc(Tail(s), sep, <<>>)
    ELSE SplitAcc(Tail(s), sep, Append(cur, Head(s)))

Split(s, sep) == SplitAcc(s, sep, <<>>)

IsSpace(c) == c \in {" ", "\n"}

RECURSIVE LStrip(_)
LStrip(s) == IF s # <<>> /\ IsSpace(Head(s)) THEN LStrip(Tail(s)) ELSE s

RECURSIVE RStrip(_)
RStrip(s) ==
    IF s # <<>> /\ IsSpace(s[Len(s)]) THEN RStrip(SubSeq(s, 1, Len(s) - 1)) ELSE s

\* str.strip()
Strip(s) == RStrip(LStrip(s))

\* s < t in Python's string order
RECURSIVE StrLess(_, _)
StrLess(s, t) ==
    IF t = <<>> THEN FALSE
    ELSE IF s = <<>> THEN TRUE
    ELSE IF Head(s) = Head(t) THEN StrLess(Tail(s), Tail(t))
    ELSE CharCode(Head(s)) < CharCode(Head(t))

ClaimPrefix == <<"c", "l", "a", "i", "m">>
Sep == "_"

----------------------------------------------------------------------------
(* Sequences                                                               *)

Range(s) == {s[i] : i \in 1..Len(s)}

\* sequences over S without repetition, of length at most n
DistinctSeqs(S, n) ==
    {s \in UNION {[1..k -> S] : k \in 0..n} :
        \A i, j \in 1..Len(s) : i # j => s[i] # s[j]}

RECURSIVE Flatten(_)
Flatten(ss) == IF ss = <<>> THEN <<>> ELSE Head(ss) \o Flatten(Tail(ss))

\* lst[a:b] with 0 <= a <= b (Python slice, clipped to the list)
Slice(lst, a, b) ==
    LET lo == IF a > Len(lst) THEN Len(lst) ELSE a
        hi == IF b > Len(lst) THEN Len(lst) ELSE b
    IN  SubSeq(lst, lo + 1, hi)

----------------------------------------------------------------------------
(* Text files: tokens, lines, JSON documents                               *)

NoObj == [custom_id |-> <<>>, body |-> [target_lang |-> <<>>, Claim |-> <<>>]]

\* the newline character of a text
NL == [nl |-> TRUE, obj |-> NoObj]

\* json.dumps(obj): one JSON document (it contains no raw newline)
JsonTok(o) == [nl |-> FALSE, obj |-> o]

\* text.splitlines(): a final newline adds no empty last line, "" gives []
RECURSIVE SplitLinesAcc(_, _)
SplitLinesAcc(text, cur) ==
    IF text = <<>> THEN (IF cur = <<>> THEN <<>> ELSE <<cur>>)
    ELSE IF Head(text).nl THEN <<cur>> \o SplitLinesAcc(Tail(text), <<>>)
    ELSE SplitLinesAcc(Tail(text), Append(cur, Head(text)))

SplitLines(text) == SplitLinesAcc(text, <<>>)

\* "\n".join(lines)
RECURSIVE JoinNL(_)
JoinNL(lines) ==
    IF lines = <<>> THEN <<>>
    ELSE IF Len(lines) = 1 THEN lines[1]
    ELSE lines[1] \o <<NL>> \o JoinNL(Tail(lines))

\* json.loads(line) succeeds iff the line holds exactly one JSON document
JsonOk(line) == Len(line) = 1

----------------------------------------------------------------------------
(* Request Builder                                                         *)

ClaimText(k) == <<"t">> \o IntToStr(k)

Row(k) == [claim_id |-> k, Claim |-> ClaimText(k)]

CustomIdNoLang(claim_id, target_lang) ==
    ClaimPrefix \o IntToStr(claim_id) \o <<Sep>>

\* custom_id = f"claim{row.claim_id}_{target_lang}"
CustomId(claim_id, target_lang) ==
    ClaimPrefix \o IntToStr(claim_id) \o <<Sep>> \o target_lang

\* the request dict; of the body only the fields that vary are kept
make_jsonl_line(row, target_lang) ==
    [custom_id |-> CustomId(row.claim_id, target_lang),
     body |-> [target_lang |-> target_lang, Claim |-> row.Claim]]

RECURSIVE RowLines(_, _)
RowLines(row, langs) ==
    IF langs = <<>> THEN <<>>
    ELSE <<JsonTok(make_jsonl_line(row, Head(langs))), NL>>
         \o RowLines(row, Tail(langs))

\* the rows x languages double loop writing json.dumps(line) + "\n"
RECURSIVE WriteJsonl(_, _)
WriteJsonl(rows, langs) ==
    IF rows = <<>> THEN <<>>
    ELSE RowLines(Head(rows), langs) \o WriteJsonl(Tail(rows), langs)

----------------------------------------------------------------------------
(* Chunker                                                                 *)

ChunkSizeFloor(n, parts) == n \div parts

\* chunk = len(lines) // NUM_PARTS + 1
ChunkSize(n, parts) == n \div parts + 1

ChunkerAlwaysSplits(text, parts) ==
    LET lines == SplitLines(text)
        chunk == ChunkSize(Len(lines), parts)
    IN  [i \in 1..parts |-> JoinNL(Slice(lines, (i - 1) * chunk, i * chunk))]

\* the texts of the files listed in part_paths
Chunker(text, parts) ==
    IF parts = 1 THEN <<text>>
    ELSE LET lines == SplitLines(text)
             chunk == ChunkSize(Len(lines), parts)
         IN  [i \in 1..parts |->
                 JoinNL(Slice(lines, (i - 1) * chunk, i * chunk))]

PilotPickAll(lines, r) == JoinNL(lines)

\* random.choice(lines) for a non-empty list when the random module draws r
PilotPick(lines, r) == lines[(r % Len(lines)) + 1]

----------------------------------------------------------------------------
(* Result Parser                                                           *)

ParseFail == [ok |-> FALSE, claim_id |-> 0, language |-> <<>>]

\* claim_id, lang = cid.replace("claim","").split("_") ; int(claim_id)
ParseCid(cid) ==
    LET parts == Split(RemoveAll(cid, ClaimPrefix), Sep)
    IN  IF Len(parts) # 2 THEN ParseFail
        ELSE LET n == StrToInt(parts[1])
             IN  IF ~n.ok THEN ParseFail
                 ELSE [ok |-> TRUE, claim_id |-> n.val, language |-> parts[2]]

\* the loop of parse_batch_file over the lines; any exception ends it
RECURSIVE ParseLines(_, _)
ParseLines(lines, rows) ==
    IF lines = <<>> THEN [ok |-> TRUE, rows |-> rows]
    ELSE IF ~JsonOk(Head(lines)) THEN [ok |-> FALSE, rows |-> <<>>]
    ELSE LET blob == Head(lines)[1].obj
             d == ParseCid(blob.custom_id)
         IN  IF ~d.ok THEN [ok |-> FALSE, rows |-> <<>>]
             ELSE ParseLines(Tail(lines),
                     Append(rows, [claim_id |-> d.claim_id,
                                   language |-> d.language,
                                   payload |-> blob.body]))

parse_batch_file(text) == ParseLines(SplitLines(text), <<>>)

----------------------------------------------------------------------------
(* External service and aggregation helpers                                *)

\* "in_progress" stands for every status the service reports before a job
\* ends; "expired" is a final status that is neither completed nor failed.
Status == {"in_progress", "completed", "failed", "expired"}
FinalStatus == {"completed", "failed", "expired"}

\* the output file of a completed job: one result line per request line,
\* echoing its custom_id; the payload is the translation of body.Claim
\* into body.target_lang, kept as that pair
RECURSIVE ServiceOutputLines(_)
ServiceOutputLines(lines) ==
    IF lines = <<>> THEN <<>>
    ELSE (IF JsonOk(Head(lines))
          THEN <<JsonTok([custom_id |-> Head(lines)[1].obj.custom_id,
                          body |-> Head(lines)[1].obj.body]), NL>>
          ELSE <<>>)
         \o ServiceOutputLines(Tail(lines))

ServiceOutput(input) == ServiceOutputLines(SplitLines(input))

\* the id the service gives to the next created job
NewJobId(s) == CHOOSE i \in 1..(Cardinality(DOMAIN s) + 1) :
                   /\ i \notin DOMAIN s
                   /\ \A j \in 1..(i - 1) : j \in DOMAIN s

NaN == <<"N", "a", "N">>

\* left merge of one translated row with df_claims[["claim_id","Claim"]]
RECURSIVE MergeRow(_, _)
MergeRow(r, claims) ==
    IF claims = <<>> THEN <<>>
    ELSE (IF Head(claims).claim_id = r.claim_id
          THEN <<[claim_id |-> r.claim_id, language |-> r.language,
                  payload |-> r.payload, Claim |-> Head(claims).Claim]>>
          ELSE <<>>)
         \o MergeRow(r, Tail(claims))

RECURSIVE MergeLeft(_, _)
MergeLeft(rows, claims) ==
    IF rows = <<>> THEN <<>>
    ELSE LET r == Head(rows)
             m == MergeRow(r, claims)
         IN  (IF m = <<>>
              THEN <<[claim_id |-> r.claim_id, language |-> r.language,
                      payload |-> r.payload, Claim |-> NaN]>>
              ELSE m)
             \o MergeLeft(Tail(rows), claims)

\* order of sort_values(["claim_id", "language"])
RowLess(a, b) ==
    \/ a.claim_id < b.claim_id
    \/ a.claim_id = b.claim_id /\ StrLess(a.language, b.language)

RECURSIVE InsertRow(_, _)
InsertRow(r, sorted) ==
    IF sorted = <<>> THEN <<r>>
    ELSE IF RowLess(r, Head(sorted)) THEN <<r>> \o sorted
    ELSE <<Head(sorted)>> \o InsertRow(r, Tail(sorted))

NoSort(rows, acc) == rows

RECURSIVE SortRows(_, _)
SortRows(rows, acc) ==
    IF rows = <<>> THEN acc
    ELSE SortRows(Tail(rows), InsertRow(Head(rows), acc))

ConcatFirstTable(tables) ==
    IF tables = <<>> THEN <<>> ELSE Head(tables).rows

RECURSIVE ConcatTables(_)
ConcatTables(tables) ==
    IF tables = <<>> THEN <<>>
    ELSE Head(tables).rows \o ConcatTables(Tail(tables))

----------------------------------------------------------------------------
(* Two-stage notebook (20): JSON text of the responses                     *)

Quote == "\""
Backslash == "\\"

\* {"causal_claims":" and "} : the text around the string of a Stage 1
\* response that follows summary_schema
SummaryOpen == <<"{", Quote, "c", "a", "u", "s", "a", "l", "_", "c", "l",
                 "a", "i", "m", "s", Quote, ":", Quote>>
SummaryClose == <<Quote, "}">>

\* the characters of a string as JSON writes them between the quotes
RECURSIVE JsonEscape(_)
JsonEscape(str) ==
    IF str = <<>> THEN <<>>
    ELSE (IF Head(str) = "\n" THEN <<Backslash, "n">>
          ELSE IF Head(str) \in {Quote, Backslash} THEN <<Backslash, Head(str)>>
          ELSE <<Head(str)>>)
         \o JsonEscape(Tail(str))

\* the JSON text of {"causal_claims": str}
SummaryJson(str) == SummaryOpen \o JsonEscape(str) \o SummaryClose

JsonStringFail == [ok |-> FALSE, val |-> <<>>, rest |-> <<>>]

\* json.loads reading a string after its opening quote: the decoded
\* characters up to the closing quote, and the text after it
RECURSIVE JsonStringBody(_, _)
JsonStringBody(txt, acc) ==
    IF txt = <<>> THEN JsonStringFail
    ELSE IF Head(txt) = Quote THEN [ok |-> TRUE, val |-> acc, rest |-> Tail(txt)]
    ELSE IF Head(txt) = "\n" THEN JsonStringFail
    ELSE IF Head(txt) = Backslash
    THEN IF Len(txt) < 2 THEN JsonStringFail
         ELSE IF txt[2] = "n"
         THEN JsonStringBody(SubSeq(txt, 3, Len(txt)), Append(acc, "\n"))
         ELSE IF txt[2] \in {Quote, Backslash}
         THEN JsonStringBody(SubSeq(txt, 3, Len(txt)), Append(acc, txt[2]))
         ELSE JsonStringFail
    ELSE JsonStringBody(Tail(txt), Append(acc, Head(txt)))

EmptyObject == <<"{", "}">>

\* json.loads(stage1_resp.choices[0].message.content)["causal_claims"]
Stage1Decode(content) ==
    IF content.none THEN [ok |-> FALSE, err |-> "TypeError", val |-> <<>>]
    ELSE IF content.text = EmptyObject
    THEN [ok |-> FALSE, err |-> "KeyError", val |-> <<>>]
    ELSE IF ~HasPrefix(content.text, SummaryOpen)
    THEN [ok |-> FALSE, err |-> "JSONDecodeError", val |-> <<>>]
    ELSE LET b == JsonStringBody(SubSeq(content.text, Len(SummaryOpen) + 1,
                                        Len(content.text)), <<>>)
         IN  IF b.ok /\ b.rest = <<"}">>
             THEN [ok |-> TRUE, err |-> "none", val |-> b.val]
             ELSE [ok |-> FALSE, err |-> "JSONDecodeError", val |-> <<>>]

\* json.loads(stage2_resp.choices[0].message.content)["edges"]; of the
\* Stage 2 content only whether it is a JSON object with "edges" and how
\* many edges it lists are kept
Stage2Decode(content) ==
    IF content.valid THEN [ok |-> TRUE, err |-> "none", val |-> content.edges]
    ELSE [ok |-> FALSE, err |-> "JSONDecodeError", val |-> <<>>]

\* strings the model may return as causal_claims
ClaimStrings == {<<"a">>, <<"a", "\n", "b">>, <<>>, <<Quote, "a", Quote>>,
                 <<"a", Backslash, "n">>}

\* message.content of a Stage 1 response: a summary object, no content
\* (refusal), a text cut before its end, an object without the field
Stage1Contents ==
    {[none |-> FALSE, text |-> SummaryJson(str)] : str \in ClaimStrings}
    \cup {[none |-> TRUE, text |-> <<>>],
          [none |-> FALSE, text |-> SummaryOpen \o <<"a">>],
          [none |-> FALSE, text |-> EmptyObject]}

Stage2Contents ==
    {[valid |-> TRUE, edges |-> [i \in 1..k |-> "edge"]] : k \in 0..MaxEdges}
    \cup {[valid |-> FALSE, edges |-> <<>>]}

PageTexts == {<<"p">>, <<"p", "\n", "q">>, <<"p", Quote>>}

NoRequest == [sent |-> FALSE, user |-> <<>>]

NoTwoStage ==
    [page_text |-> <<>>,
     stage1_req |-> NoRequest,
     stage1_resp |-> [received |-> FALSE,
                      content |-> [none |-> TRUE, text |-> <<>>]],
     causal_claims_text |-> [defined |-> FALSE, val |-> <<>>],
     stage2_req |-> NoRequest,
     stage2_resp |-> [received |-> FALSE,
                      content |-> [valid |-> FALSE, edges |-> <<>>]],
     edges |-> [defined |-> FALSE, val |-> <<>>]]

----------------------------------------------------------------------------
(* Initial states                                                          *)

Spanish == <<"S", "p", "a", "n", "i", "s", "h">>
German == <<"G", "e", "r", "m", "a", "n">>
Japanese == <<"J", "a", "p", "a", "n", "e", "s", "e">>
es == <<"e", "s">>
de == <<"d", "e">>
zh_CN == <<"z", "h", "_", "C", "N">>
xclaim == <<"x", "c", "l", "a", "i", "m">>
two == <<"2">>

\* the demo dataset and the target languages of the notebook
DemoClaims == <<Row(1), Row(2), Row(3)>>
DemoLangs == <<Spanish, German, Japanese>>

IdKeys == {1, 2, 12}
IdLangs == {es, de, zh_CN, xclaim, two}

\* identifiers a result line may carry: two that the Request Builder
\* composes, and ones that are no composition of a row key and a variant
claim1 == ClaimPrefix \o <<"1">>
claimx_es == ClaimPrefix \o <<"x", Sep>> \o es
one_claim_es == <<"1">> \o ClaimPrefix \o <<Sep>> \o es
no_key_es == <<Sep>> \o es

ResultIds == {CustomId(1, es), CustomId(12, de), CustomId(1, zh_CN),
              claim1, claimx_es, one_claim_es, no_key_es}

\* one line of an output file: the result tagged with custom_id
ResultLine(cid) ==
    <<JsonTok([custom_id |-> cid,
               body |-> [target_lang |-> es, Claim |-> ClaimText(1)]]), NL>>

RECURSIVE OutputText(_)
OutputText(cids) ==
    IF cids = <<>> THEN <<>>
    ELSE ResultLine(Head(cids)) \o OutputText(Tail(cids))

EnvChoices == {[set |-> FALSE, val |-> <<>>],
               [set |-> TRUE, val |-> <<>>],
               [set |-> TRUE, val |-> <<"s", "k">>],
               [set |-> TRUE, val |-> <<"e", "k">>]}

FileChoices == {[exists |-> FALSE, text |-> <<>>],
                [exists |-> TRUE, text |-> <<"\n">>],
                [exists |-> TRUE, text |-> <<"s", "k", "\n">>]}

\* a job created by an earlier session, whose id a manifest may hold
OldJobId == 0
OldJob == [status |-> "in_progress",
           input |-> WriteJsonl(<<Row(1)>>, <<Spanish>>)]

ManifestChoices == {[exists |-> FALSE, ids |-> <<>>],
                    [exists |-> TRUE, ids |-> <<>>],
                    [exists |-> TRUE, ids |-> <<OldJobId>>]}

NoTable == [defined |-> FALSE, rows |-> <<>>]
NoDecode == [done |-> FALSE, claim_id |-> 0, target_lang |-> <<>>,
             custom_id |-> <<>>, res |-> ParseFail]
NoDownload == [called |-> FALSE, bid |-> 0, st |-> "none",
               fetched |-> FALSE, wrote |-> FALSE, ret |-> "None"]
NoParse == [done |-> FALSE, ok |-> FALSE, rows |-> <<>>]

InitRun ==
    /\ error = "none"
    /\ api_calls = {}
    /\ part_texts = <<>>
    /\ pilot_line = <<>>
    /\ pilot_jobs = <<>>
    /\ batch_ids = <<>>
    /\ batch_ids_defined = FALSE
    /\ restarted = FALSE
    /\ PENDING = {} /\ COMPLETED = {} /\ FAILED = {}
    /\ todo = {}
    /\ lastq = [bid |-> -1, st |-> "none"]
    /\ shown = [printed |-> FALSE, done |-> 0, failed |-> 0, pending |-> 0]
    /\ rest = {}
    /\ downloaded = {}
    /\ dl = NoDownload
    /\ all_tables = <<>>
    /\ df_translated = NoTable
    /\ df_final = NoTable
    /\ decoded = NoDecode
    /\ parse_in = <<>>
    /\ parse_out = NoParse
    /\ ts = NoTwoStage

\* the notebook before its first cell runs, with the key in the key file
\* and not in the environment
Init ==
    /\ pc = "cell1"
    /\ env_key = [set |-> FALSE, val |-> <<>>]
    /\ key_file = [exists |-> TRUE, text |-> <<"s", "k", "\n">>]
    /\ client = FALSE
    /\ df_claims = DemoClaims
    /\ TARGET_LANGS = DemoLangs
    /\ rng \in 0..MaxRand
    /\ NUM_PARTS \in 1..MaxParts
    /\ jsonl_text = <<>>
    /\ BATCH_ID_FILE \in ManifestChoices
    /\ svc = IF OldJobId \in Range(BATCH_ID_FILE.ids)
             THEN (OldJobId :> OldJob) ELSE <<>>
    /\ InitRun

\* the notebook before its first cell runs, for every state of the two
\* key sources; NUM_PARTS is 1 as in the notebook and there is no manifest
InitKey ==
    /\ pc = "cell1"
    /\ env_key \in EnvChoices
    /\ key_file \in FileChoices
    /\ client = FALSE
    /\ df_claims = DemoClaims
    /\ TARGET_LANGS = DemoLangs
    /\ rng = 0
    /\ NUM_PARTS = 1
    /\ jsonl_text = <<>>
    /\ BATCH_ID_FILE = [exists |-> FALSE, ids |-> <<>>]
    /\ svc = <<>>
    /\ InitRun

\* the run when the cell of stages (A) and (B) starts: the key was read
\* from the key file, the pilot was not ready in cell 8, NUM_PARTS parts were
\* submitted and none of the jobs has ended yet
InitPoll ==
    /\ pc = "stageA"
    /\ error = "none"
    /\ api_calls = {"files.create", "batches.create", "batches.retrieve"}
    /\ env_key = [set |-> TRUE, val |-> <<"s", "k">>]
    /\ key_file = [exists |-> TRUE, text |-> <<"s", "k", "\n">>]
    /\ client = TRUE
    /\ df_claims = DemoClaims
    /\ TARGET_LANGS = DemoLangs
    /\ rng = 0
    /\ NUM_PARTS \in 1..MaxPollParts
    /\ jsonl_text = WriteJsonl(DemoClaims, DemoLangs)
    /\ part_texts = Chunker(jsonl_text, NUM_PARTS)
    /\ pilot_line = SplitLines(jsonl_text)[1]
    /\ pilot_jobs = <<pilot_line>>
    /\ BATCH_ID_FILE \in ManifestChoices
    /\ batch_ids = [i \in 1..NUM_PARTS |-> i]
    /\ batch_ids_defined = TRUE
    /\ restarted = FALSE
    /\ svc = (IF OldJobId \in Range(BATCH_ID_FILE.ids)
              THEN (OldJobId :> OldJob) ELSE <<>>)
             @@ [i \in 1..NUM_PARTS |->
                    [status |-> "in_progress", input |-> part_texts[i]]]
    /\ PENDING = {} /\ COMPLETED = {} /\ FAILED = {}
    /\ todo = {}
    /\ lastq = [bid |-> -1, st |-> "none"]
    /\ shown = [printed |-> FALSE, done |-> 0, failed |-> 0, pending |-> 0]
    /\ rest = {}
    /\ downloaded = {}
    /\ dl = NoDownload
    /\ all_tables = <<>>
    /\ df_translated = NoTable
    /\ df_final = NoTable
    /\ decoded = NoDecode
    /\ parse_in = <<>>
    /\ parse_out = NoParse
    /\ ts = NoTwoStage

\* inputs of the Request Builder: any rows with distinct keys, any distinct
\* language names
InitId ==
    /\ pc = "cell4"
    /\ env_key = [set |-> TRUE, val |-> <<"s", "k">>]
    /\ key_file = [exists |-> FALSE, text |-> <<>>]
    /\ client = TRUE
    /\ \E ks \in DistinctSeqs(IdKeys, MaxIdRows) :
          df_claims = [i \in 1..Len(ks) |-> Row(ks[i])]
    /\ TARGET_LANGS \in DistinctSeqs(IdLangs, MaxIdLangs)
    /\ rng = 0
    /\ NUM_PARTS = 1
    /\ jsonl_text = <<>>
    /\ BATCH_ID_FILE = [exists |-> FALSE, ids |-> <<>>]
    /\ svc = <<>>
    /\ InitRun

\* a request file of any length and any NUM_PARTS >= 1, when cell 5 starts
InitFile ==
    /\ pc = "cell5"
    /\ env_key = [set |-> TRUE, val |-> <<"s", "k">>]
    /\ key_file = [exists |-> FALSE, text |-> <<>>]
    /\ client = TRUE
    /\ \E n \in 0..MaxLines :
          /\ df_claims = [i \in 1..n |-> Row(i)]
          /\ jsonl_text = WriteJsonl(df_claims, <<es>>)
    /\ TARGET_LANGS = <<es>>
    /\ NUM_PARTS \in 1..MaxChunkParts
    /\ BATCH_ID_FILE = [exists |-> FALSE, ids |-> <<>>]
    /\ svc = <<>>
    /\ InitRun

\* the run when cell 7 starts: the key was read from the key file, the
\* request file was built and chunked, the pilot batch was created
InitSubmit ==
    /\ pc = "cell7"
    /\ env_key = [set |-> TRUE, val |-> <<"s", "k">>]
    /\ key_file = [exists |-> TRUE, text |-> <<"s", "k", "\n">>]
    /\ client = TRUE
    /\ df_claims = DemoClaims
    /\ TARGET_LANGS = DemoLangs
    /\ rng \in 0..MaxRand
    /\ NUM_PARTS \in 1..MaxSubParts
    /\ jsonl_text = WriteJsonl(DemoClaims, DemoLangs)
    /\ BATCH_ID_FILE = [exists |-> FALSE, ids |-> <<>>]
    /\ svc = <<>>
    /\ error = "none"
    /\ api_calls = {"files.create", "batches.create"}
    /\ part_texts = Chunker(jsonl_text, NUM_PARTS)
    /\ pilot_line = PilotPick(SplitLines(jsonl_text), rng)
    /\ pilot_jobs = <<pilot_line>>
    /\ batch_ids = <<>>
    /\ batch_ids_defined = FALSE
    /\ restarted = FALSE
    /\ PENDING = {} /\ COMPLETED = {} /\ FAILED = {}
    /\ todo = {}
    /\ lastq = [bid |-> -1, st |-> "none"]
    /\ shown = [printed |-> FALSE, done |-> 0, failed |-> 0, pending |-> 0]
    /\ rest = {}
    /\ downloaded = {}
    /\ dl = NoDownload
    /\ all_tables = <<>>
    /\ df_translated = NoTable
    /\ df_final = NoTable
    /\ decoded = NoDecode
    /\ parse_in = <<>>
    /\ parse_out = NoParse
    /\ ts = NoTwoStage

\* inputs of parse_batch_file: an output file of up to MaxOutLines result
\* lines, each tagged with any of the identifiers
InitParse ==
    /\ pc = "parse"
    /\ env_key = [set |-> TRUE, val |-> <<"s", "k">>]
    /\ key_file = [exists |-> FALSE, text |-> <<>>]
    /\ client = TRUE
    /\ df_claims = DemoClaims
    /\ TARGET_LANGS = DemoLangs
    /\ rng = 0
    /\ NUM_PARTS = 1
    /\ jsonl_text = <<>>
    /\ BATCH_ID_FILE = [exists |-> FALSE, ids |-> <<>>]
    /\ svc = <<>>
    /\ error = "none"
    /\ api_calls = {}
    /\ part_texts = <<>>
    /\ pilot_line = <<>>
    /\ pilot_jobs = <<>>
    /\ batch_ids = <<>>
    /\ batch_ids_defined = FALSE
    /\ restarted = FALSE
    /\ PENDING = {} /\ COMPLETED = {} /\ FAILED = {}
    /\ todo = {}
    /\ lastq = [bid |-> -1, st |-> "none"]
    /\ shown = [printed |-> FALSE, done |-> 0, failed |-> 0, pending |-> 0]
    /\ rest = {}
    /\ downloaded = {}
    /\ dl = NoDownload
    /\ all_tables = <<>>
    /\ df_translated = NoTable
    /\ df_final = NoTable
    /\ decoded = NoDecode
    /\ \E cids \in UNION {[1..k -> ResultIds] : k \in 0..MaxOutLines} :
          parse_in = OutputText(cids)
    /\ parse_out = NoParse
    /\ ts = NoTwoStage

\* the two-stage notebook when its Stage 1 cell starts: the key cell has
\* run and page_text is bound
InitTwoStage ==
    /\ pc = "ts_stage1"
    /\ env_key = [set |-> TRUE, val |-> <<"s", "k">>]
    /\ key_file = [exists |-> FALSE, text |-> <<>>]
    /\ client = TRUE
    /\ df_claims = DemoClaims
    /\ TARGET_LANGS = DemoLangs
    /\ rng = 0
    /\ NUM_PARTS = 1
    /\ jsonl_text = <<>>
    /\ BATCH_ID_FILE = [exists |-> FALSE, ids |-> <<>>]
    /\ svc = <<>>
    /\ error = "none"
    /\ api_calls = {}
    /\ part_texts = <<>>
    /\ pilot_line = <<>>
    /\ pilot_jobs = <<>>
    /\ batch_ids = <<>>
    /\ batch_ids_defined = FALSE
    /\ restarted = FALSE
    /\ PENDING = {} /\ COMPLETED = {} /\ FAILED = {}
    /\ todo = {}
    /\ lastq = [bid |-> -1, st |-> "none"]
    /\ shown = [printed |-> FALSE, done |-> 0, failed |-> 0, pending |-> 0]
    /\ rest = {}
    /\ downloaded = {}
    /\ dl = NoDownload
    /\ all_tables = <<>>
    /\ df_translated = NoTable
    /\ df_final = NoTable
    /\ decoded = NoDecode
    /\ parse_in = <<>>
    /\ parse_out = NoParse
    /\ \E txt \in PageTexts : ts = [NoTwoStage EXCEPT !.page_text = txt]

\* inputs of the Chunker
InitChunk == InitFile /\ rng = 0

\* inputs of the Chunker and the pilot cell: any draw of random.choice
InitPilot == InitFile /\ rng \in 0..(MaxLines - 1)

----------------------------------------------------------------------------
(* Cells of the notebook                                                   *)

Raise(e) == /\ pc' = "raised"
            /\ error' = e

KeyMissingIfUnset(env) == ~env.set

\* not os.getenv("OPENAI_API_KEY")
KeyMissing(env) == ~env.set \/ env.val = <<>>

UseKeyFileIfNoKey(env, file) == KeyMissing(env) /\ file.exists

\* os.getenv("OPENAI_API_KEY") is None and key_file.exists()
UseKeyFile(env, file) == ~env.set /\ file.exists

\* API key cell: key fallback, the check, client = OpenAI()
LoadKey ==
    /\ pc = "cell1"
    /\ LET env1 == IF UseKeyFile(env_key, key_file)
                   THEN [set |-> TRUE, val |-> Strip(key_file.text)]
                   ELSE env_key
       IN  /\ env_key' = env1
           /\ IF KeyMissing(env1)
              THEN /\ Raise("ValueError")
                   /\ client' = client
              ELSE /\ client' = TRUE
                   /\ pc' = "cell4"
                   /\ error' = error
    /\ UNCHANGED <<api_calls, key_file, inVars, fileVars, subVars, svc,
                   pollVars, aggVars, idVars>>

\* cell 4: write one JSONL line per (claim, language)
BuildJsonl ==
    /\ pc = "cell4"
    /\ jsonl_text' = WriteJsonl(df_claims, TARGET_LANGS)
    /\ pc' = "cell5"
    /\ UNCHANGED <<error, api_calls, keyVars, inVars, part_texts, pilot_line,
                   pilot_jobs, BATCH_ID_FILE, subVars, svc, pollVars, aggVars, idVars>>

\* cell 5: split into NUM_PARTS part files
ChunkerCell ==
    /\ pc = "cell5"
    /\ part_texts' = Chunker(jsonl_text, NUM_PARTS)
    /\ pc' = "cell6"
    /\ UNCHANGED <<error, api_calls, keyVars, inVars, jsonl_text, pilot_line,
                   pilot_jobs, BATCH_ID_FILE, subVars, svc, pollVars, aggVars, idVars>>

\* cell 6: pilot batch of one random line; random.choice([]) raises.
\* pilot_path.write_text(pilot_line): the pilot file holds the chosen line,
\* and the pilot job is created from that file.
PilotBatch ==
    /\ pc = "cell6"
    /\ LET lines == SplitLines(jsonl_text)
       IN  IF lines = <<>>
           THEN /\ Raise("IndexError")
                /\ UNCHANGED <<pilot_line, pilot_jobs, api_calls>>
           ELSE /\ pilot_line' = PilotPick(lines, rng)
                /\ pilot_jobs' = Append(pilot_jobs, pilot_line')
                /\ api_calls' = api_calls \cup {"files.create", "batches.create"}
                /\ pc' = "cell7"
                /\ error' = error
    /\ UNCHANGED <<keyVars, inVars, jsonl_text, part_texts, BATCH_ID_FILE,
                   subVars, svc, pollVars, aggVars, idVars>>

\* cell 7: batch_ids = []
SubmitStart ==
    /\ pc = "cell7"
    /\ batch_ids' = <<>>
    /\ batch_ids_defined' = TRUE
    /\ pc' = "cell7_loop"
    /\ UNCHANGED <<error, api_calls, keyVars, inVars, fileVars, restarted, svc,
                   pollVars, aggVars, idVars>>

NextPartFirst(ids) == 1

\* the position in part_paths of the p the for loop has reached: every
\* iteration that got to its end appended one id
NextPart(ids) == Len(ids) + 1

\* cell 7: one iteration of "for p in part_paths" up to the sleep: upload,
\* create the batch, append its id
SubmitPart ==
    /\ pc = "cell7_loop"
    /\ Len(batch_ids) < Len(part_texts)
    /\ LET id == NewJobId(svc)
       IN  /\ svc' = svc @@ (id :> [status |-> "in_progress",
                                    input |-> part_texts[NextPart(batch_ids)]])
           /\ batch_ids' = Append(batch_ids, id)
    /\ api_calls' = api_calls \cup {"files.create", "batches.create"}
    /\ pc' = "cell7_sleep"
    /\ UNCHANGED <<error, keyVars, inVars, fileVars, batch_ids_defined,
                   restarted, pollVars, aggVars, idVars>>

\* cell 7: time.sleep(1) returns and the loop goes to the next p
SubmitSleep ==
    /\ pc = "cell7_sleep"
    /\ pc' = "cell7_loop"
    /\ UNCHANGED <<error, api_calls, keyVars, inVars, fileVars, subVars, svc,
                   pollVars, aggVars, idVars>>

SubmitPartRetries ==
    /\ pc = "cell7_loop"
    /\ Len(batch_ids) < Len(part_texts)
    /\ error = "none"
    /\ error' = "APIError"
    /\ api_calls' = api_calls \cup {"files.create"}
    /\ UNCHANGED <<pc, keyVars, inVars, fileVars, subVars, svc, pollVars,
                   aggVars, idVars>>

\* cell 7: client.files.create or client.batches.create raises in an
\* iteration; nothing catches the exception, so the cell stops there
SubmitPartFails ==
    /\ pc = "cell7_loop"
    /\ Len(batch_ids) < Len(part_texts)
    /\ Raise("APIError")
    /\ \E failing \in {"files.create", "batches.create"} :
          api_calls' = api_calls \cup
              (IF failing = "batches.create"
               THEN {"files.create", "batches.create"} ELSE {"files.create"})
    /\ UNCHANGED <<keyVars, inVars, fileVars, subVars, svc, pollVars,
                   aggVars, idVars>>

\* cell 7: the loop over part_paths is exhausted
SubmitDone ==
    /\ pc = "cell7_loop"
    /\ Len(batch_ids) = Len(part_texts)
    /\ pc' = "cell8"
    /\ UNCHANGED <<error, api_calls, keyVars, inVars, fileVars, subVars, svc,
                   pollVars, aggVars, idVars>>

NotReadyIfPending(st) == st = "in_progress"

\* status.status != "completed"
NotReady(st) == st # "completed"

\* download_output(batch_id) when batches.retrieve reports the status st:
\* what the call saw, whether it fetched the output file content, whether
\* it wrote out_path, and what it returned
download_output(bid, st) ==
    IF NotReady(st)
    THEN [called |-> TRUE, bid |-> bid, st |-> st,
          fetched |-> FALSE, wrote |-> FALSE, ret |-> "None"]
    ELSE [called |-> TRUE, bid |-> bid, st |-> st,
          fetched |-> TRUE, wrote |-> TRUE, ret |-> "out_path"]

\* stands for pilot_batch.id, which is not an id of batch_ids
PilotJobId == -1

\* cell 8: download_output(pilot_batch.id) and, if it is there, parse it.
\* The pilot job is queried this once, so its status is drawn here.
PilotDownload ==
    /\ pc = "cell8"
    /\ \E st \in Status :
          LET d == download_output(PilotJobId, st)
          IN  /\ dl' = d
              /\ IF ~d.fetched
                 THEN /\ api_calls' = api_calls \cup {"batches.retrieve"}
                      /\ pc' = "stageA"
                      /\ error' = error
                 ELSE /\ api_calls' = api_calls
                                       \cup {"batches.retrieve", "files.content"}
                      /\ IF parse_batch_file(ServiceOutput(pilot_line)).ok
                         THEN pc' = "stageA" /\ error' = error
                         ELSE Raise("ValueError")
    /\ UNCHANGED <<keyVars, inVars, fileVars, subVars, svc, pollVars,
                   rest, downloaded, all_tables, df_translated, df_final,
                   idVars>>

\* stage (A): fetch the batch-ID list
StageA ==
    /\ pc = "stageA"
    /\ IF BATCH_ID_FILE.exists
       THEN /\ batch_ids' = BATCH_ID_FILE.ids
            /\ batch_ids_defined' = TRUE
            /\ restarted' = restarted
            /\ pc' = "stageB"
            /\ error' = error
       ELSE IF batch_ids_defined
       THEN /\ pc' = "stageB"
            /\ UNCHANGED <<error, subVars>>
       ELSE /\ Raise("ValueError")
            /\ UNCHANGED subVars
    /\ UNCHANGED <<api_calls, keyVars, inVars, fileVars, svc, pollVars,
                   aggVars, idVars>>

\* stage (B): PENDING = set(batch_ids); COMPLETED, FAILED = set(), set()
StageBInit ==
    /\ pc = "stageB"
    /\ PENDING' = Range(batch_ids)
    /\ COMPLETED' = {}
    /\ FAILED' = {}
    /\ pc' = "poll_while"
    /\ UNCHANGED <<error, api_calls, keyVars, inVars, fileVars, subVars, svc,
                   todo, lastq, shown, aggVars, idVars>>

LoopContinuesIfSeveral(P) == Cardinality(P) > 1

\* the condition of "while PENDING"
LoopContinues(P) == P # {}

\* "while PENDING": enter a round over list(PENDING), or leave the loop and
\* print "All batches resolved."
PollWhile ==
    /\ pc = "poll_while"
    /\ IF LoopContinues(PENDING)
       THEN /\ todo' = PENDING
            /\ pc' = "poll_for"
       ELSE /\ pc' = "resolved"
            /\ todo' = todo
    /\ UNCHANGED <<error, api_calls, keyVars, inVars, fileVars, subVars, svc,
                   PENDING, COMPLETED, FAILED, lastq, shown, aggVars, idVars>>

ClassifyFailedStays(st) ==
    IF st = "completed" THEN "COMPLETED" ELSE "PENDING"

ClassifyAnyFinal(st) ==
    IF st = "failed" THEN "FAILED"
    ELSE IF st = "in_progress" THEN "PENDING" ELSE "COMPLETED"

ClassifyFailedAsDone(st) ==
    IF st \in {"completed", "failed"} THEN "COMPLETED" ELSE "PENDING"

ClassifyDropsExpired(st) ==
    IF st = "completed" THEN "COMPLETED"
    ELSE IF st = "failed" THEN "FAILED"
    ELSE IF st = "expired" THEN "NONE"
    ELSE "PENDING"

ClassifyExpiredFails(st) ==
    IF st = "completed" THEN "COMPLETED"
    ELSE IF st = "in_progress" THEN "PENDING"
    ELSE "FAILED"

\* the if / elif on st in the poll loop: the set bid ends up in
Classify(st) ==
    IF st = "completed" THEN "COMPLETED"
    ELSE IF st = "failed" THEN "FAILED"
    ELSE "PENDING"

\* one iteration of "for bid in list(PENDING)"
PollOne(bid) ==
    /\ pc = "poll_for"
    /\ bid \in todo
    /\ LET st == svc[bid].status
       IN  /\ lastq' = [bid |-> bid, st |-> st]
           /\ COMPLETED' = IF Classify(st) = "COMPLETED"
                           THEN COMPLETED \cup {bid} ELSE COMPLETED
           /\ FAILED' = IF Classify(st) = "FAILED"
                        THEN FAILED \cup {bid} ELSE FAILED
           /\ PENDING' = IF Classify(st) = "PENDING"
                         THEN PENDING ELSE PENDING \ {bid}
    /\ todo' = todo \ {bid}
    /\ api_calls' = api_calls \cup {"batches.retrieve"}
    /\ UNCHANGED <<pc, error, keyVars, inVars, fileVars, subVars, svc, shown,
                   aggVars, idVars>>

SleepAlways(P) == TRUE

\* the condition of "if PENDING:" before time.sleep(60)
SleepNeeded(P) == P # {}

\* end of a round: print the counts, sleep if something is pending
PollRoundEnd ==
    /\ pc = "poll_for"
    /\ todo = {}
    /\ shown' = [printed |-> TRUE, done |-> Cardinality(COMPLETED),
                 failed |-> Cardinality(FAILED),
                 pending |-> Cardinality(PENDING)]
    /\ pc' = IF SleepNeeded(PENDING) THEN "poll_sleep" ELSE "poll_while"
    /\ UNCHANGED <<error, api_calls, keyVars, inVars, fileVars, subVars, svc,
                   PENDING, COMPLETED, FAILED, todo, lastq, aggVars, idVars>>

PollSleepRequeues ==
    /\ pc = "poll_sleep"
    /\ pc' = "poll_while"
    /\ PENDING' = PENDING \cup FAILED
    /\ FAILED' = {}
    /\ UNCHANGED <<error, api_calls, keyVars, inVars, fileVars, subVars, svc,
                   COMPLETED, todo, lastq, shown, aggVars, idVars>>

\* time.sleep(60) returns
PollSleep ==
    /\ pc = "poll_sleep"
    /\ pc' = "poll_while"
    /\ UNCHANGED <<error, api_calls, keyVars, inVars, fileVars, subVars, svc,
                   pollVars, aggVars, idVars>>


\* stage (C): all_tables = [] and the start of "for bid in COMPLETED"
StageCInit ==
    /\ pc = "resolved"
    /\ all_tables' = <<>>
    /\ rest' = COMPLETED
    /\ pc' = "stageC"
    /\ UNCHANGED <<error, api_calls, keyVars, inVars, fileVars, subVars, svc,
                   pollVars, downloaded, dl, df_translated, df_final, idVars>>

\* stage (C): one iteration: download_output(bid), then parse_batch_file
StageCStep(bid) ==
    /\ pc = "stageC"
    /\ bid \in rest
    /\ rest' = rest \ {bid}
    /\ LET d == download_output(bid, svc[bid].status)
       IN  /\ dl' = d
           /\ IF ~d.fetched
              THEN /\ api_calls' = api_calls \cup {"batches.retrieve"}
                   /\ UNCHANGED <<pc, error, downloaded, all_tables>>
              ELSE /\ api_calls' = api_calls
                                    \cup {"batches.retrieve", "files.content"}
                   /\ downloaded' = downloaded \cup {bid}
                   /\ LET t == parse_batch_file(ServiceOutput(svc[bid].input))
                      IN  IF t.ok
                          THEN /\ all_tables' =
                                      Append(all_tables,
                                             [bid |-> bid, rows |-> t.rows])
                               /\ UNCHANGED <<pc, error>>
                          ELSE /\ Raise("ValueError")
                               /\ all_tables' = all_tables
    /\ UNCHANGED <<keyVars, inVars, fileVars, subVars, svc, pollVars,
                   df_translated, df_final, idVars>>

NeverAbort(tables) == FALSE

\* the condition of "if not all_tables"
NothingParsed(tables) == tables = <<>>

\* stage (C): raise if nothing was parsed, else pd.concat and the print
StageCEnd ==
    /\ pc = "stageC"
    /\ rest = {}
    /\ IF NothingParsed(all_tables)
       THEN /\ Raise("ValueError")
            /\ df_translated' = df_translated
       ELSE /\ df_translated' = [defined |-> TRUE,
                                 rows |-> ConcatTables(all_tables)]
            /\ pc' = "stageD"
            /\ error' = error
    /\ UNCHANGED <<api_calls, keyVars, inVars, fileVars, subVars, svc,
                   pollVars, rest, downloaded, dl, all_tables, df_final,
                   idVars>>

\* stage (D): merge with df_claims on claim_id (how="left"), then sort
StageD ==
    /\ pc = "stageD"
    /\ df_final' = [defined |-> TRUE,
                    rows |-> SortRows(MergeLeft(df_translated.rows, df_claims),
                                      <<>>)]
    /\ pc' = "done"
    /\ UNCHANGED <<error, api_calls, keyVars, inVars, fileVars, subVars, svc,
                   pollVars, rest, downloaded, dl, all_tables, df_translated,
                   idVars>>

\* the service ends a job, in any order and at any time while the notebook
\* runs (what it does after the run has ended is not observed)
ServiceStep(j) ==
    /\ pc \notin {"done", "raised"}
    /\ j \in DOMAIN svc
    /\ svc[j].status = "in_progress"
    /\ \E st \in FinalStatus : svc' = [svc EXCEPT ![j].status = st]
    /\ UNCHANGED <<pc, error, api_calls, keyVars, inVars, fileVars, subVars,
                   pollVars, aggVars, idVars>>

\* the identifier of one built request, as a result line echoes it, taken
\* apart by the parser
DecodeOne ==
    /\ pc = "cell5"
    /\ \E i \in 1..Len(df_claims), j \in 1..Len(TARGET_LANGS) :
          LET req == make_jsonl_line(df_claims[i], TARGET_LANGS[j])
          IN  decoded' = [done |-> TRUE,
                          claim_id |-> df_claims[i].claim_id,
                          target_lang |-> TARGET_LANGS[j],
                          custom_id |-> req.custom_id,
                          res |-> ParseCid(req.custom_id)]
    /\ pc' = "decoded"
    /\ UNCHANGED <<error, api_calls, keyVars, inVars, fileVars, subVars, svc,
                   pollVars, aggVars, parse_in, parse_out, ts>>

\* parse_batch_file(path) on one output file
ParseOutput ==
    /\ pc = "parse"
    /\ LET t == parse_batch_file(parse_in)
       IN  parse_out' = [done |-> TRUE, ok |-> t.ok, rows |-> t.rows]
    /\ pc' = "parsed"
    /\ UNCHANGED <<error, api_calls, keyVars, inVars, fileVars, subVars, svc,
                   pollVars, aggVars, decoded, parse_in, ts>>

\* the kernel is restarted after the submission cell and the notebook is
\* re-opened at the retrieval cell: the name batch_ids is no longer bound,
\* while the files on disk and the jobs at the service remain (the key cell
\* is run again and gives the client back)
Restart ==
    /\ pc = "stageA"
    /\ batch_ids_defined
    /\ ~restarted
    /\ restarted' = TRUE
    /\ batch_ids' = <<>>
    /\ batch_ids_defined' = FALSE
    /\ UNCHANGED <<pc, error, api_calls, keyVars, inVars, fileVars, svc,
                   pollVars, aggVars, idVars>>

\* the user message of the Stage 2 request
Stage2UserPage(claims_text, page) == page

\* {"role": "user", "content": causal_claims_text}
Stage2User(claims_text, page) == claims_text

tsFrame == <<keyVars, inVars, fileVars, subVars, svc, pollVars, aggVars,
             decoded, parse_in, parse_out>>

\* Stage 1 cell: client.chat.completions.create(...) sends the request
\* with page_text as the user message
Stage1Request ==
    /\ pc = "ts_stage1"
    /\ ts' = [ts EXCEPT !.stage1_req = [sent |-> TRUE, user |-> ts.page_text]]
    /\ api_calls' = api_calls \cup {"chat.completions.create"}
    /\ pc' = "ts_wait1"
    /\ UNCHANGED <<error, tsFrame>>

\* Stage 1 cell: the call returns stage1_resp
Stage1Response ==
    /\ pc = "ts_wait1"
    /\ \E c \in Stage1Contents :
          ts' = [ts EXCEPT !.stage1_resp = [received |-> TRUE, content |-> c]]
    /\ pc' = "ts_decode1"
    /\ UNCHANGED <<error, api_calls, tsFrame>>

\* Stage 1 cell: causal_claims_text = json.loads(...)["causal_claims"]
Stage1Parse ==
    /\ pc = "ts_decode1"
    /\ LET d == Stage1Decode(ts.stage1_resp.content)
       IN  IF d.ok
           THEN /\ ts' = [ts EXCEPT !.causal_claims_text =
                                        [defined |-> TRUE, val |-> d.val]]
                /\ pc' = "ts_stage2"
                /\ error' = error
           ELSE /\ Raise(d.err)
                /\ ts' = ts
    /\ UNCHANGED <<api_calls, tsFrame>>

\* Stage 2 cell: client.chat.completions.create(...) sends the request
Stage2Request ==
    /\ pc = "ts_stage2"
    /\ ts' = [ts EXCEPT !.stage2_req =
                 [sent |-> TRUE,
                  user |-> Stage2User(ts.causal_claims_text.val, ts.page_text)]]
    /\ api_calls' = api_calls \cup {"chat.completions.create"}
    /\ pc' = "ts_wait2"
    /\ UNCHANGED <<error, tsFrame>>

\* Stage 2 cell: the call returns stage2_resp
Stage2Response ==
    /\ pc = "ts_wait2"
    /\ \E c \in Stage2Contents :
          ts' = [ts EXCEPT !.stage2_resp = [received |-> TRUE, content |-> c]]
    /\ pc' = "ts_decode2"
    /\ UNCHANGED <<error, api_calls, tsFrame>>

\* Stage 2 cell: edges = json.loads(...)["edges"]
Stage2Parse ==
    /\ pc = "ts_decode2"
    /\ LET d == Stage2Decode(ts.stage2_resp.content)
       IN  IF d.ok
           THEN /\ ts' = [ts EXCEPT !.edges = [defined |-> TRUE, val |-> d.val]]
                /\ pc' = "ts_done"
                /\ error' = error
           ELSE /\ Raise(d.err)
                /\ ts' = ts
    /\ UNCHANGED <<api_calls, tsFrame>>

----------------------------------------------------------------------------
(* Specifications                                                          *)

MaxJobs == CHOOSE m \in {MaxParts, MaxPollParts, MaxSubParts} :
               \A n \in {MaxParts, MaxPollParts, MaxSubParts} : m >= n

JobIds == 0..MaxJobs

Run ==
    \/ LoadKey
    \/ BuildJsonl
    \/ ChunkerCell
    \/ PilotBatch
    \/ SubmitStart
    \/ SubmitPart
    \/ SubmitSleep
    \/ SubmitDone
    \/ PilotDownload
    \/ StageA
    \/ StageBInit
    \/ PollWhile
    \/ \E bid \in JobIds : PollOne(bid)
    \/ PollRoundEnd
    \/ PollSleep
    \/ StageCInit
    \/ \E bid \in JobIds : StageCStep(bid)
    \/ StageCEnd
    \/ StageD

Next == Run \/ \E j \in JobIds : ServiceStep(j)

\* the notebook run against the external service, whose API calls return
\* (SubmitSpec is the submission cell with calls that may raise)
Spec == Init /\ [][Next]_vars

\* the notebook run for every state of the two key sources
KeySpec == InitKey /\ [][Next]_vars

PollRun ==
    \/ StageA
    \/ StageBInit
    \/ PollWhile
    \/ \E bid \in JobIds : PollOne(bid)
    \/ PollRoundEnd
    \/ PollSleep

NextPoll == PollRun \/ \E j \in JobIds : ServiceStep(j)

\* the cell of stages (A) and (B): the kernel keeps executing it, so a step
\* of the cell that can be taken is taken; nothing is assumed of the service
FairSpec == InitPoll /\ [][NextPoll]_vars /\ WF_vars(PollRun)

NextId == BuildJsonl \/ DecodeOne

\* the Request Builder and the identifier decomposition on their own
IdSpec == InitId /\ [][NextId]_vars

NextChunk == ChunkerCell

\* the Chunker on its own
ChunkSpec == InitChunk /\ [][NextChunk]_vars

NextPilot == ChunkerCell \/ PilotBatch

\* the Chunker and the pilot cell, for a request file of any length
PilotSpec == InitPilot /\ [][NextPilot]_vars

NextSubmit ==
    \/ SubmitStart
    \/ SubmitPart
    \/ SubmitSleep
    \/ SubmitPartFails
    \/ SubmitDone
    \/ \E j \in JobIds : ServiceStep(j)

\* the submission cell when an upload or a batch creation may raise
SubmitSpec == InitSubmit /\ [][NextSubmit]_vars

NextRestart == Restart \/ NextPoll

\* the retrieval cell, run in the session that submitted or after a restart
RestartSpec == InitPoll /\ [][NextRestart]_vars

NextTwoStage ==
    \/ Stage1Request
    \/ Stage1Response
    \/ Stage1Parse
    \/ Stage2Request
    \/ Stage2Response
    \/ Stage2Parse

\* the two-stage notebook from its Stage 1 cell on
TwoStageSpec == InitTwoStage /\ [][NextTwoStage]_vars

NextParse == ParseOutput

\* parse_batch_file on its own
ParseSpec == InitParse /\ [][NextParse]_vars

----------------------------------------------------------------------------
(* Properties                                                              *)

Requests == SplitLines(jsonl_text)

\* C1: once the Request Builder has run, the request file holds exactly
\* len(rows) * len(languages) records, one JSON document per line, and
\* their custom_id values are pairwise distinct.
C1_BuilderCountAndUniqueIds ==
    pc \in {"cell5", "decoded"} =>
        /\ Len(Requests) = Len(df_claims) * Len(TARGET_LANGS)
        /\ \A i \in 1..Len(Requests) : JsonOk(Requests[i])
        /\ \A i, j \in 1..Len(Requests) :
              i # j => Requests[i][1].obj.custom_id # Requests[j][1].obj.custom_id

C1_Witness ==
    /\ pc = "cell5"
    /\ Len(df_claims) = 2
    /\ Len(TARGET_LANGS) = 2
    /\ zh_CN \in Range(TARGET_LANGS)
    /\ Len(Requests) = 4

PartLines == [i \in 1..Len(part_texts) |-> SplitLines(part_texts[i])]

\* C2: after the Chunker has run there are NUM_PARTS chunks, and the record
\* lines of the chunks, concatenated in chunk order, are the record lines
\* of the original request file.
C2_ChunkingIsPartition ==
    pc = "cell6" =>
        /\ Len(part_texts) = NUM_PARTS
        /\ Flatten(PartLines) = Requests

C2_Witness ==
    /\ pc = "cell6"
    /\ NUM_PARTS = 3
    /\ Len(Requests) = 7
    /\ Len(PartLines[1]) = 3
    /\ Len(PartLines[3]) = 1

\* C3: a step that adds a batch id to COMPLETED is a step whose status query
\* for that id returned "completed", and a step that adds it to FAILED is
\* a step whose status query for that id returned "failed".
C3_TerminalOnlyWhenQueriedTerminal ==
    [][\A b \in JobIds :
          /\ (b \in COMPLETED' /\ b \notin COMPLETED) =>
                 /\ lastq' = [bid |-> b, st |-> "completed"]
                 /\ svc[b].status = "completed"
          /\ (b \in FAILED' /\ b \notin FAILED) =>
                 /\ lastq' = [bid |-> b, st |-> "failed"]
                 /\ svc[b].status = "failed"]_vars

C3_Witness ==
    /\ pc = "poll_for"
    /\ lastq.st = "failed"
    /\ lastq.bid \in FAILED
    /\ COMPLETED # {}

Polled == Range(batch_ids)

AfterPolling == pc \in {"resolved", "stageC", "stageD", "done"}

\* C4: the poll loop is left only from its "while PENDING" test with PENDING
\* empty, and once it is left every id of batch_ids is in COMPLETED or
\* FAILED and its job has the status completed or failed; the test leaves
\* the loop exactly when PENDING is empty.
C4_ExitsExactlyWhenAllTerminal ==
    /\ [](AfterPolling =>
             /\ PENDING = {}
             /\ Polled \subseteq COMPLETED \cup FAILED
             /\ \A b \in Polled : svc[b].status \in {"completed", "failed"})
    /\ [][/\ (pc' = "resolved" /\ pc # "resolved") =>
                 (pc = "poll_while" /\ PENDING = {})
          /\ (pc = "poll_while" /\ pc' # pc) =>
                 (pc' = "resolved" <=> PENDING = {})]_vars

C4_Witness ==
    /\ pc = "resolved"
    /\ Cardinality(Polled) = 2
    /\ Cardinality(COMPLETED) = 1
    /\ Cardinality(FAILED) = 1
    /\ PENDING = {}

AllJobsFinal == \A j \in DOMAIN svc : svc[j].status \in {"completed", "failed"}

\* C5: once every job has reached the status completed or failed (where it
\* stays), the poll loop eventually exits, whatever the order in which the
\* jobs ended.
C5_PollerEventuallyExits == AllJobsFinal ~> (pc = "resolved")

C5_Witness ==
    /\ pc = "resolved"
    /\ AllJobsFinal
    /\ Cardinality(Polled) = 2
    /\ lastq.st = "completed"
    /\ FAILED # {}

\* C6: for every (row key, variant) pair the Request Builder accepts (an
\* integer row key, a variant name without the separator "_"), the parser
\* decomposes the custom_id into that claim_id and that language, and
\* composing them again gives the same custom_id.
C6_ParserInvertsComposition ==
    (decoded.done /\ Sep \notin Range(decoded.target_lang)) =>
        /\ decoded.res.ok
        /\ decoded.res.claim_id = decoded.claim_id
        /\ decoded.res.language = decoded.target_lang
        /\ CustomId(decoded.res.claim_id, decoded.res.language) = decoded.custom_id

Submitted == DOMAIN svc \ {OldJobId}

AllSubmittedCompleted ==
    /\ Submitted # {}
    /\ \A j \in Submitted : svc[j].status = "completed"

\* every request is answered by exactly one result row, every result row
\* answers a request, and each row carries the Claim of the input row it
\* was built from
ResultsMatchRequests ==
    /\ df_translated.defined
    /\ df_final.defined
    /\ Len(df_translated.rows) = Len(Requests)
    /\ Len(df_final.rows) = Len(Requests)
    /\ Len(df_final.rows) = Len(df_claims) * Len(TARGET_LANGS)
    /\ \A i \in 1..Len(Requests) :
          Cardinality({k \in 1..Len(df_final.rows) :
              CustomId(df_final.rows[k].claim_id, df_final.rows[k].language)
                  = Requests[i][1].obj.custom_id}) = 1
    /\ \A k \in 1..Len(df_final.rows) :
          /\ df_final.rows[k].Claim = df_final.rows[k].payload.Claim
          /\ \E i \in 1..Len(df_claims) :
                /\ df_claims[i].claim_id = df_final.rows[k].claim_id
                /\ df_claims[i].Claim = df_final.rows[k].Claim

RunEnded == pc \in {"done", "raised"}

TableBids == {all_tables[i].bid : i \in 1..Len(all_tables)}

\* C8: a polled job that ended "failed" is in FAILED once the loop is left,
\* the failed count printed is the size of FAILED, and a batch in FAILED
\* is never downloaded nor parsed, so no result row comes from it.
C8_FailedJobReportedAndExcluded ==
    /\ FAILED \cap downloaded = {}
    /\ FAILED \cap TableBids = {}
    /\ FAILED \cap COMPLETED = {}
    /\ AfterPolling =>
          /\ \A b \in Polled : svc[b].status = "failed" => b \in FAILED
          /\ FAILED # {} => (shown.printed /\ shown.failed = Cardinality(FAILED))
    /\ df_translated.defined =>
          Len(df_translated.rows) =
              Len(ConcatTables(all_tables))
    /\ TableBids \subseteq COMPLETED

C8_Witness ==
    /\ pc = "done"
    /\ Cardinality(FAILED) = 1
    /\ shown.failed = 1
    /\ Cardinality(TableBids) = 1
    /\ df_final.defined

\* C9: when nothing was parsed from any completed batch, stage (C) raises
\* ValueError and neither df_translated nor df_final is produced: both
\* exist only if some table was parsed from a completed batch.
C9_NoCompletedJobAborts ==
    /\ []((pc \in {"stageD", "done"} \/ df_translated.defined \/ df_final.defined)
             => (all_tables # <<>> /\ COMPLETED # {}))
    /\ [][(pc = "stageC" /\ rest = {} /\ all_tables = <<>> /\ pc' # pc) =>
             /\ pc' = "raised"
             /\ error' = "ValueError"
             /\ ~df_translated'.defined
             /\ ~df_final'.defined]_vars

C9_Witness ==
    /\ pc = "raised"
    /\ error = "ValueError"
    /\ COMPLETED = {}
    /\ FAILED # {}
    /\ PENDING = {}
    /\ ~df_translated.defined
    /\ ~df_final.defined

\* neither the environment variable nor the key file provides a key
NoCredential ==
    /\ ~env_key.set \/ env_key.val = <<>>
    /\ ~key_file.exists \/ Strip(key_file.text) = <<>>

\* C10: when neither source provides a key, the key cell raises ValueError:
\* the client is never constructed and no API request is ever issued.
C10_MissingKeyFatalBeforeNetwork ==
    NoCredential =>
        /\ client = FALSE
        /\ api_calls = {}
        /\ pc \in {"cell1", "raised"}
        /\ pc = "raised" => error = "ValueError"

C10_Witness ==
    /\ NoCredential
    /\ pc = "raised"
    /\ error = "ValueError"
    /\ key_file.exists
    /\ env_key.set

\* C11 as stated: once the key cell has run, if the environment variable or
\* the key file holds a non-empty key, no error was raised: the client
\* exists and OPENAI_API_KEY is set to a non-empty value.
C11_KeyFromEitherSource ==
    (pc # "cell1" /\ ~NoCredential) =>
        /\ client
        /\ env_key.set
        /\ env_key.val # <<>>

JobsOfParts ==
    /\ Len(batch_ids) <= Len(part_texts)
    /\ DOMAIN svc = Range(batch_ids)
    /\ Cardinality(DOMAIN svc) = Len(batch_ids)
    /\ \A i \in 1..Len(batch_ids) : svc[batch_ids[i]].input = part_texts[i]

\* C12: when the upload or the batch creation of chunk k raises, the cell
\* stops with that error: the step creates no job and appends no id, no
\* later step submits anything, and batch_ids holds the ids of the jobs of
\* chunks 1..k-1, one each, which are all the jobs there are.
C12_SubmissionFailureSurfaced ==
    /\ [](error = "APIError" =>
             /\ pc = "raised"
             /\ Len(batch_ids) < Len(part_texts)
             /\ JobsOfParts)
    /\ [][(error' = "APIError" /\ error = "none") =>
             /\ pc = "cell7_loop"
             /\ pc' = "raised"
             /\ batch_ids' = batch_ids
             /\ DOMAIN svc' = DOMAIN svc]_vars
    /\ [][pc = "raised" =>
             /\ pc' = "raised"
             /\ batch_ids' = batch_ids
             /\ DOMAIN svc' = DOMAIN svc]_vars

C12_Witness ==
    /\ pc = "raised"
    /\ error = "APIError"
    /\ NUM_PARTS = 3
    /\ Len(batch_ids) = 1
    /\ svc[batch_ids[1]].status = "completed"

\* C13: a job is created only by an iteration of the submission loop, one
\* job per iteration, for the next chunk in order, with its id appended to
\* batch_ids; the loop comes to its next iteration only from the start of
\* the cell or after the sleep of the previous iteration, during which
\* nothing is submitted; after an error-free run batch_ids holds one job
\* id per chunk, in chunk order.
C13_SequentialOneJobPerChunk ==
    /\ [](pc = "cell8" =>
             /\ Len(batch_ids) = NUM_PARTS
             /\ Len(batch_ids) = Len(part_texts)
             /\ JobsOfParts)
    /\ [][(DOMAIN svc' # DOMAIN svc \/ batch_ids' # batch_ids) =>
             /\ pc = "cell7_loop"
             /\ pc' = "cell7_sleep"
             /\ \E id \in JobIds \ DOMAIN svc :
                   /\ DOMAIN svc' = DOMAIN svc \cup {id}
                   /\ batch_ids' = Append(batch_ids, id)
                   /\ svc'[id].input = part_texts[Len(batch_ids) + 1]]_vars
    /\ [][(pc' = "cell7_loop" /\ pc # "cell7_loop") =>
             pc \in {"cell7", "cell7_sleep"}]_vars
    /\ [][pc = "cell7_sleep" =>
             (batch_ids' = batch_ids /\ DOMAIN svc' = DOMAIN svc)]_vars

C13_Witness ==
    /\ pc = "cell8"
    /\ error = "none"
    /\ NUM_PARTS = 3
    /\ batch_ids = <<1, 2, 3>>
    /\ svc[2].input # svc[1].input

\* C14: a call of download_output fetches the output file content only if
\* the status it retrieved is "completed", and for any other status it
\* fetches nothing, writes no file and returns None; the content of a
\* batch of batch_ids is fetched only in a step in which that batch has
\* the status completed.
C14_OutputReadOnlyWhenCompleted ==
    /\ [](dl.called =>
             /\ dl.fetched => dl.st = "completed"
             /\ dl.st # "completed" =>
                    (~dl.fetched /\ ~dl.wrote /\ dl.ret = "None"))
    /\ [](\A b \in downloaded : svc[b].status = "completed")
    /\ [][("files.content" \in api_calls' \ api_calls
            \/ downloaded' # downloaded) =>
             /\ dl'.called
             /\ dl'.fetched
             /\ dl'.st = "completed"
             /\ dl'.bid # PilotJobId =>
                    /\ svc[dl'.bid].status = "completed"
                    /\ downloaded' = downloaded \cup {dl'.bid}]_vars

C14_Witness ==
    /\ pc = "stageC"
    /\ dl.fetched
    /\ dl.bid \in downloaded
    /\ Cardinality(downloaded) = 2
    /\ FAILED = {}

\* C15: a batch id enters COMPLETED or FAILED only from PENDING, never
\* leaves the set it entered, is never in two of the three sets, and is
\* never put back in PENDING; the three sets change only when stage (B)
\* sets them up and inside the poll loop.
C15_TerminalStatesAbsorbing ==
    [][/\ COMPLETED \subseteq COMPLETED'
       /\ FAILED \subseteq FAILED'
       /\ (COMPLETED' \ COMPLETED) \cup (FAILED' \ FAILED) \subseteq PENDING
       /\ pc # "stageB" => PENDING' \subseteq PENDING
       /\ COMPLETED' \cap FAILED' = {}
       /\ PENDING' \cap (COMPLETED' \cup FAILED') = {}
       /\ <<PENDING, COMPLETED, FAILED>>' # <<PENDING, COMPLETED, FAILED>>
              => pc \in {"stageB", "poll_for"}]_vars

C15_Witness ==
    /\ pc = "poll_sleep"
    /\ Cardinality(FAILED) = 1
    /\ Cardinality(PENDING) = 1
    /\ shown.failed = 1
    /\ shown.pending = 1

\* C16 as stated: after the submission cell has run and the kernel was
\* restarted, stage (A) raises no error and the ids it hands to the poller
\* are exactly the ids of the jobs the submission cell created.
C16_ResumeFromManifest ==
    (restarted /\ pc # "stageA") =>
        /\ pc # "raised"
        /\ Submitted # {}
        /\ Range(batch_ids) = Submitted

\* the records of the final table that the requests sent in the jobs of B
\* call for: one per request, with the Claim of the row it was built from
ExpectedRows(B) ==
    {[claim_id |-> r.claim_id, language |-> l,
      payload |-> make_jsonl_line(r, l).body, Claim |-> r.Claim] :
        <<r, l>> \in {x \in Range(df_claims) \X Range(TARGET_LANGS) :
            \E b \in B :
                JsonTok(make_jsonl_line(x[1], x[2])) \in Range(svc[b].input)}}

\* C17: the final table holds exactly the records of the requests of the
\* completed jobs, each with the Claim of its input row and once, in the
\* order of (claim_id, language): it is the same table for every order in
\* which the jobs ended and every order in which stage (C) went through
\* COMPLETED.
C17_ResultIndependentOfOrder ==
    pc = "done" =>
        /\ Range(df_final.rows) = ExpectedRows(COMPLETED)
        /\ Len(df_final.rows) = Cardinality(ExpectedRows(COMPLETED))
        /\ \A k \in 1..(Len(df_final.rows) - 1) :
              RowLess(df_final.rows[k], df_final.rows[k + 1])

C17_Witness ==
    /\ pc = "done"
    /\ Len(all_tables) = 2
    /\ all_tables[1].bid > all_tables[2].bid
    /\ lastq.bid < all_tables[1].bid
    /\ Len(df_final.rows) = 9

\* C18: with NUM_PARTS = 1 the Chunker gives exactly one chunk, which is
\* the request file itself: the same text, hence the same records in the
\* same order.
C18_SinglePartIsWholeFile ==
    (pc = "cell6" /\ NUM_PARTS = 1) =>
        /\ Len(part_texts) = 1
        /\ part_texts[1] = jsonl_text
        /\ SplitLines(part_texts[1]) = Requests

C18_Witness ==
    /\ pc = "cell6"
    /\ NUM_PARTS = 1
    /\ Len(part_texts) = 1
    /\ Len(Requests) = MaxLines

\* the identifier is the composition of an integer row key and a variant
\* name without the separator
Decomposable(cid) ==
    /\ HasPrefix(cid, ClaimPrefix)
    /\ LET parts == Split(SubSeq(cid, Len(ClaimPrefix) + 1, Len(cid)), Sep)
       IN  /\ Len(parts) = 2
           /\ parts[1] # <<>>
           /\ \A i \in 1..Len(parts[1]) : IsDigit(parts[1][i])

ParseInIds ==
    {SplitLines(parse_in)[i][1].obj.custom_id :
        i \in 1..Len(SplitLines(parse_in))}

\* C19 as stated: when the output file holds a line whose identifier is no
\* composition of a row key and a variant, parse_batch_file raises and
\* returns no record.
C19_UndecomposableIdIsFatal ==
    (parse_out.done /\ \E cid \in ParseInIds : ~Decomposable(cid)) =>
        /\ ~parse_out.ok
        /\ parse_out.rows = <<>>

\* C20: once the pilot cell has run, the pilot file holds exactly one
\* line, which is a line of the full request file, and one pilot job was
\* created, from that file; if the cell raised, no pilot job was created.
C20_PilotIsOneRequestLine ==
    /\ pc = "cell7" =>
          /\ Len(SplitLines(pilot_line)) = 1
          /\ SplitLines(pilot_line)[1] \in Range(Requests)
          /\ JsonOk(SplitLines(pilot_line)[1])
          /\ Len(pilot_jobs) = 1
          /\ pilot_jobs[1] = pilot_line
    /\ pc # "cell7" => pilot_jobs = <<>>

C20_Witness ==
    /\ pc = "cell7"
    /\ Len(Requests) = MaxLines
    /\ NUM_PARTS = 2
    /\ pilot_line = Requests[5]
    /\ Len(pilot_jobs) = 1

\* C22: the key cell changes OPENAI_API_KEY only when the variable is
\* unset and the key file exists, and then to the stripped text of the
\* file; a variable that is set, even to the empty string, keeps its
\* value, and no other cell touches it or the key file.
C22_SetVariableNeverOverwritten ==
    [][/\ env_key' # env_key =>
             /\ pc = "cell1"
             /\ ~env_key.set
             /\ key_file.exists
             /\ env_key' = [set |-> TRUE, val |-> Strip(key_file.text)]
       /\ env_key.set => env_key' = env_key
       /\ key_file' = key_file]_vars

C22_Witness ==
    /\ pc = "cell4"
    /\ client
    /\ env_key = [set |-> TRUE, val |-> <<"e", "k">>]
    /\ key_file.exists
    /\ Strip(key_file.text) = <<"s", "k">>

\* a step of the poll loop that queries the status of a handle
QueryStep == pc = "poll_for" /\ todo' # todo

\* C23: a round starts with the list of all pending handles; each query
\* takes one handle off that list, a handle that is pending and in neither
\* COMPLETED nor FAILED, and the round ends only when the list is used up,
\* so each handle pending at the start is queried once and no terminal
\* handle is queried; the sleep is entered only from the end of a round
\* that leaves some handle pending, and a round that leaves none goes
\* straight to the loop test.
C23_EachPendingQueriedOncePerRound ==
    /\ [](pc = "poll_for" =>
             /\ todo \subseteq PENDING
             /\ todo \cap (COMPLETED \cup FAILED) = {})
    /\ [][/\ (pc = "poll_while" /\ pc' = "poll_for") => todo' = PENDING
          /\ QueryStep =>
                \E b \in todo :
                    /\ todo' = todo \ {b}
                    /\ lastq' = [bid |-> b, st |-> svc[b].status]
                    /\ b \in PENDING
                    /\ b \notin COMPLETED \cup FAILED
          /\ lastq' # lastq => QueryStep
          /\ (pc = "poll_for" /\ pc' # "poll_for") => todo = {}
          /\ (pc' = "poll_sleep" /\ pc # "poll_sleep") =>
                (pc = "poll_for" /\ PENDING # {})
          /\ (pc = "poll_for" /\ pc' = "poll_while") => PENDING = {}
          /\ (pc = "poll_for" /\ pc' = "poll_sleep") => PENDING' # {}]_vars

C23_Witness ==
    /\ pc = "poll_while"
    /\ PENDING = {}
    /\ shown.printed
    /\ shown.pending = 0
    /\ Cardinality(COMPLETED \cup FAILED) = 2
    /\ lastq.st = "failed"

PollerPcs == {"poll_while", "poll_for", "poll_sleep"}

\* C24: from the set-up of stage (B) on, PENDING, COMPLETED and FAILED are
\* pairwise disjoint and their union is the set of ids in batch_ids.
C24_SetsPartitionBatchIds ==
    (pc \in PollerPcs \/ AfterPolling) =>
        /\ PENDING \cap COMPLETED = {}
        /\ PENDING \cap FAILED = {}
        /\ COMPLETED \cap FAILED = {}
        /\ PENDING \cup COMPLETED \cup FAILED = Range(batch_ids)

C24_Witness ==
    /\ pc = "poll_for"
    /\ todo = {}
    /\ Cardinality(PENDING) = 1
    /\ Cardinality(COMPLETED) = 1
    /\ lastq.st = "expired"

\* C26: a query that returns a status other than "completed" and "failed"
\* leaves the handle in PENDING and in neither other set; every handle in
\* PENDING is on the list of the next round and is queried in it; and the
\* loop has not been left while a handle of batch_ids has such a status.
C26_OtherStatusStaysPending ==
    /\ [][(QueryStep /\ lastq'.st \notin {"completed", "failed"}) =>
             /\ lastq'.bid \in PENDING'
             /\ lastq'.bid \notin COMPLETED' \cup FAILED']_vars
    /\ [][(pc = "poll_while" /\ pc' = "poll_for") =>
             PENDING \subseteq todo']_vars
    /\ \A b \in JobIds :
          (pc = "poll_sleep" /\ b \in PENDING)
              ~> (pc = "poll_for" /\ b \notin todo /\ lastq.bid = b)
    /\ []((\E b \in Range(batch_ids) :
               svc[b].status \notin {"completed", "failed"})
             => ~AfterPolling)

C26_Witness ==
    /\ pc = "poll_for"
    /\ shown.printed
    /\ shown.pending = 2
    /\ lastq.st = "expired"
    /\ lastq.bid \in PENDING
    /\ lastq.bid \notin todo
    /\ Cardinality(todo) = 1

\* C25 as stated: when NUM_PARTS > 1 and the request file has at least
\* NUM_PARTS records, every chunk file the Chunker wrote holds at least
\* one record.
C25_NoEmptyChunk ==
    (pc = "cell6" /\ NUM_PARTS > 1 /\ Len(Requests) >= NUM_PARTS) =>
        \A i \in 1..Len(part_texts) : Len(PartLines[i]) >= 1

\* C21: the Stage 2 request is sent only by the Stage 2 cell, after the
\* Stage 1 response was received and causal_claims_text was decoded from
\* it, and its user message is that string: the string whose JSON text
\* the Stage 1 response carried.
C21_Stage2AfterStage1Decoded ==
    /\ [](ts.stage2_req.sent =>
             /\ ts.stage1_req.sent
             /\ ts.stage1_resp.received
             /\ ts.causal_claims_text.defined
             /\ ts.stage2_req.user = ts.causal_claims_text.val
             /\ ~ts.stage1_resp.content.none
             /\ ts.stage1_resp.content.text = SummaryJson(ts.stage2_req.user))
    /\ [][(ts'.stage2_req.sent /\ ~ts.stage2_req.sent) =>
             /\ pc = "ts_stage2"
             /\ ts.stage1_resp.received
             /\ ts.causal_claims_text.defined
             /\ ts'.causal_claims_text = ts.causal_claims_text]_vars
    /\ [][(ts'.causal_claims_text.defined /\ ~ts.causal_claims_text.defined) =>
             (ts.stage1_resp.received /\ ~ts.stage2_req.sent)]_vars

C21_Witness ==
    /\ pc = "ts_done"
    /\ ts.stage2_req.sent
    /\ ts.stage2_req.user = <<"a", "\n", "b">>
    /\ ts.page_text = <<"p", "\n", "q">>
    /\ Len(ts.edges.val) = 1

====
